---- MODULE Spec2Model ----
(***************************************************************************)
(* Nate's Door Service: the Express server of src/server.js.               *)
(*                                                                         *)
(* The server is a chain  express.json() -> express.static(__dirname) ->   *)
(* routes.  A request occupies a slot from its arrival to its response;    *)
(* the contact handler is suspended once, at the await of emails.send.     *)
(* The one variable shared between requests is the module-level `resend`.  *)
(*                                                                         *)
(* app.get('*') is a valid path only for Express 4, whose express.json()   *)
(* leaves req.body = {} when there is no body to parse, passes JSON        *)
(* objects and arrays (strict mode) and hands anything else to the error   *)
(* handler; the program installs no error handler of its own.              *)
(***************************************************************************)
EXTENDS Naturals, Sequences, FiniteSets

\* ------------------------------------------------------------------ bounds

\* Most characters a request body carries over its four fields together.
MaxChars == 4

\* Request slots of the concurrent specification (requests in flight at once).
MaxReq == 2

\* Characters of user input: the two the sanitizer rewrites, one it keeps.
Chars == {"<", ">", "a"}

\* ------------------------------------------------------------ JSON values

Undefined == [t |-> "undefined", s |-> <<>>]
Null      == [t |-> "null", s |-> <<>>]
Str(s)    == [t |-> "string", s |-> s]

StringsUpTo(n) == UNION {[1..k -> Chars] : k \in 0..n}

\* A field of the body: absent, null, or a string of at most n characters.
ValuesUpTo ==
  [n \in 0..MaxChars |-> {Undefined, Null} \cup {Str(s) : s \in StringsUpTo(n)}]

Fields == {"name", "phone", "email", "message"}

EmptyBody == [f \in Fields |-> Undefined]

\* JavaScript truthiness of a field value: `!name`, `email ?`, `email ||`.
Truthy(v) == v.t = "string" /\ v.s # <<>>

\* String(str ?? '')
ToStr(v) == IF v.t \in {"undefined", "null"} THEN <<>> ELSE v.s

\* str.replace(/c/g, r) for a one-character pattern c.
RECURSIVE ReplaceAll(_, _, _)
ReplaceAll(s, c, r) ==
  IF s = <<>> THEN <<>>
  ELSE (IF Head(s) = c THEN r ELSE <<Head(s)>>) \o ReplaceAll(Tail(s), c, r)

Lt == <<"&", "l", "t", ";">>
Gt == <<"&", "g", "t", ";">>

\* Mutant of safe: the second replace is left out.
safeOnlyLt(str) == ReplaceAll(ToStr(str), "<", Lt)

\* const safe = str => String(str ?? '').replace(/</g, '&lt;').replace(/>/g, '&gt;')
safe(str) == ReplaceAll(ReplaceAll(ToStr(str), "<", Lt), ">", Gt)

\* --------------------------------------------------------- outbound email

\* A template literal is a row of literal chunks and substitutions; a
\* substitution keeps the name of the field it interpolates.
Lit(text)        == [kind |-> "lit", field |-> "", text |-> <<text>>]
Sub(field, text) == [kind |-> "sub", field |-> field, text |-> text]

\* subject: `New Quote Request from ${safe(name)}`
Subject(body) == <<Lit("New Quote Request from "), Sub("name", safe(body.name))>>

\* The placeholder of an absent email, U+2014 in the source.
EmDash == "[em dash]"

\* ${email ? `<a href="mailto:${safe(email)}">${safe(email)}</a>` : EmDash}
EmailCell(email) ==
  IF Truthy(email)
  THEN <<Lit("<a href=\"mailto:"), Sub("email", safe(email)), Lit("\">"),
         Sub("email", safe(email)), Lit("</a>")>>
  ELSE <<Lit(EmDash)>>

\* html: the table of the four fields.
Html(body) ==
  <<Lit("<div><h2>New Quote Request</h2><table><tr><td>Name</td><td>"),
    Sub("name", safe(body.name)),
    Lit("</td></tr><tr><td>Phone</td><td><a href=\"tel:"),
    Sub("phone", safe(body.phone)), Lit("\">"),
    Sub("phone", safe(body.phone)),
    Lit("</a></td></tr><tr><td>Email</td><td>")>>
  \o EmailCell(body.email)
  \o <<Lit("</td></tr><tr><td>Message</td><td style=\"white-space:pre-wrap\">"),
       Sub("message", safe(body.message)),
       Lit("</td></tr></table><p>Sent from natesdoorservice.com contact form</p></div>")>>

\* Mutant of ReplyTo: the sanitized email is used for the header too.
ReplyToSanitized(email) == IF Truthy(email) THEN Str(safe(email)) ELSE Undefined

\* replyTo: email || undefined
ReplyTo(email) == IF Truthy(email) THEN email ELSE Undefined

\* The argument of emails.send.
Email(body) ==
  [from    |-> "FROM_EMAIL ?? Nate's Door Service <onboarding@resend.dev>",
   to      |-> <<"TO_EMAIL ?? contact@natesdoorservice.com">>,
   replyTo |-> ReplyTo(body.email),
   subject |-> Subject(body),
   html    |-> Html(body)]

\* Mutant of Valid: the message is not looked at.
ValidWithoutMessage(body) == Truthy(body.name) /\ Truthy(body.phone)

\* if (!name || !phone || !message) return 400
Valid(body) == Truthy(body.name) /\ Truthy(body.phone) /\ Truthy(body.message)

\* -------------------------------------------------------------- responses

Json(status, content) == [status |-> status, type |-> "json", content |-> content]
File(status, path)    == [status |-> status, type |-> "file", content |-> path]
\* Express's own answer (finalhandler): an HTML page, no JSON.
ErrorPage(status, what) == [status |-> status, type |-> "html", content |-> <<what>>]

ValidationError == Json(400, <<"error", "Please fill in all required fields.">>)
SendError       == Json(500, <<"error", "Failed to send email. Please try again.">>)
Success         == Json(200, <<"success", "true">>)

\* ------------------------------------------------------- site and requests

Slugs == {"openers", "spring-repair", "does-not-exist"}

RootIndex    == <<"index.html">>
BlogIndex    == <<"blog", "index.html">>
AreasIndex   == <<"garage-door-service-areas-kansas-city", "index.html">>
BlogPage(slug)    == <<"blog", slug, "index.html">>
ServicePage(slug) == <<"services", slug, "index.html">>

\* The regular files of __dirname: the pages, one blog post, one service
\* page and one asset.
Files ==
  {RootIndex, BlogIndex, AreasIndex, BlogPage("openers"),
   ServicePage("spring-repair"), <<"logo.png">>}

ContactPath == <<"api", "contact">>
AreasPath   == <<"garage-door-service-areas-kansas-city">>

Paths ==
  {ContactPath, AreasPath, <<"blog">>, <<"logo.png">>, <<"anything-unmatched">>}
  \cup {<<"blog", s>> : s \in Slugs} \cup {<<"services", s>> : s \in Slugs}

Methods == {"GET", "POST"}

\* What a POST carries: nothing, a JSON object, a JSON array, or text that
\* is no JSON object or array.
RawKinds == {"absent", "object", "array", "malformed"}

\* express.json(): req.body of a request the parser lets through.
ParsedBody(raw, fields) == IF raw = "object" THEN fields ELSE EmptyBody

\* express.json(): the parse fails and next(err) skips every route.
JsonFails(r) == r.method = "POST" /\ r.raw = "malformed"

\* express.static(__dirname): a GET of a regular file is answered here.
StaticServes(r) == r.method = "GET" /\ r.path \in Files

\* The first route, in order of registration, that matches the request.
RouteOf(r) ==
  CASE r.method = "POST" /\ r.path = ContactPath -> "contact"
    [] r.method = "GET" /\ r.path = AreasPath -> "areas"
    [] r.method = "GET" /\ r.path = <<"blog">> -> "blog"
    [] r.method = "GET" /\ Len(r.path) = 2 /\ r.path[1] = "blog" -> "blogSlug"
    [] r.method = "GET" /\ Len(r.path) = 2 /\ r.path[1] = "services" -> "servicesSlug"
    [] r.method = "GET" -> "wildcard"
    [] OTHER -> "none"

\* res.status(status).sendFile(file) with no callback: a missing file goes
\* to next(err), which Express answers itself.
SendFile(status, file) ==
  IF file \in Files THEN File(status, file) ELSE ErrorPage(404, "NotFoundError")

\* Mutant of BlogFallback: the blog route falls back to the site root.
BlogFallbackToRoot == SendFile(404, RootIndex)

\* The file the blog route falls back to, and the status it sets first.
BlogFallback == SendFile(404, BlogIndex)

\* res.sendFile(filePath, err => { if (err) res.status(404).sendFile(blog index) })
BlogSlugResponse(slug) ==
  IF BlogPage(slug) \in Files THEN File(200, BlogPage(slug)) ELSE BlogFallback

\* Mutant of ServicesFallback: the services route falls back to the blog index.
ServicesFallbackToBlog == SendFile(404, BlogIndex)

\* The file the services route falls back to, and the status it sets first.
ServicesFallback == SendFile(404, RootIndex)

\* res.sendFile(filePath, err => { if (err) res.status(404).sendFile(index.html) })
ServicesSlugResponse(slug) ==
  IF ServicePage(slug) \in Files THEN File(200, ServicePage(slug)) ELSE ServicesFallback

\* Mutant of WildcardResponse: the catch-all answers 404.
WildcardNotFound == SendFile(404, RootIndex)

\* app.get('*'): res.sendFile(index.html)
WildcardResponse == SendFile(200, RootIndex)

\* ------------------------------------------------------------------ state

VARIABLES
  apiKey,         \* process.env.RESEND_API_KEY is set
  resend,         \* the module-level client handle, Unset until constructed
  constructions,  \* how many times `new Resend` has run
  reqs            \* the request of every slot

vars == <<apiKey, resend, constructions, reqs>>

\* let resend;
Unset == 0

\* Mutant of InitialResend: the client is built as the process starts.
EagerResend == Unset + 1

\* The handle at process start.
InitialResend == Unset

IdleReq ==
  [phase |-> "idle", method |-> "GET", path |-> <<>>, raw |-> "absent",
   body |-> EmptyBody, sends |-> 0, mail |-> <<>>, handle |-> Unset,
   promise |-> "none", responses |-> <<>>, logged |-> 0]

Init ==
  /\ apiKey \in BOOLEAN
  /\ resend = InitialResend
  /\ constructions = IF InitialResend = Unset THEN 0 ELSE 1
  /\ reqs = [i \in 1..MaxReq |-> IdleReq]

\* Mutant of Constructs: every call builds a client.
ConstructsAlways == TRUE

\* if (!resend)
Constructs == resend = Unset

\* getResend() throws: the handle is to be constructed and there is no key.
getResendThrows == Constructs /\ ~apiKey

\* getResend() returns: the handle, constructed now when it has to be.
getResend == IF Constructs THEN constructions + 1 ELSE resend

Respond(r, response) ==
  [r EXCEPT !.phase = "done", !.responses = Append(@, response)]

\* Mutant of Caught: the status is left at its default.
CaughtWithoutStatus(r) ==
  Respond([r EXCEPT !.logged = @ + 1],
          Json(200, <<"error", "Failed to send email. Please try again.">>))

\* console.error('Resend error:', ...); res.status(500).json(...)
Caught(r) == Respond([r EXCEPT !.logged = @ + 1], SendError)

\* A request arrives in a free slot: a GET, or a POST with or without a
\* body. A JSON object sent to the contact path has its fields among
\* `values`, MaxChars characters at most in all.
Arrive(i, paths, values) ==
  /\ reqs[i].phase = "idle"
  /\ \E m \in Methods, p \in paths, raw \in RawKinds :
       /\ m = "GET" => raw = "absent"
       /\ raw = "object" => p = ContactPath
       /\ \E n \in ValuesUpTo[IF raw = "object" THEN MaxChars ELSE 0] \cap values :
          \E ph \in ValuesUpTo[MaxChars - Len(n.s)] \cap values :
          \E e \in ValuesUpTo[MaxChars - Len(n.s) - Len(ph.s)] \cap values :
          \E msg \in ValuesUpTo[MaxChars - Len(n.s) - Len(ph.s) - Len(e.s)] \cap values :
            /\ raw # "object" => n = Undefined /\ ph = Undefined /\ e = Undefined /\ msg = Undefined
            /\ reqs' = [reqs EXCEPT ![i] =
                 [IdleReq EXCEPT
                    !.phase = "received", !.method = m, !.path = p, !.raw = raw,
                    !.body = ParsedBody(raw, [name |-> n, phone |-> ph,
                                              email |-> e, message |-> msg])]]
  /\ UNCHANGED <<apiKey, resend, constructions>>

Received(i) == reqs[i].phase = "received"

Routed(i, route) ==
  /\ Received(i)
  /\ ~JsonFails(reqs[i])
  /\ ~StaticServes(reqs[i])
  /\ RouteOf(reqs[i]) = route

\* A step of slot i that touches nothing shared.
Update(i, r) ==
  /\ reqs' = [reqs EXCEPT ![i] = r]
  /\ UNCHANGED <<apiKey, resend, constructions>>

Answer(i, response) == Update(i, Respond(reqs[i], response))

\* express.json() rejects the body; Express's error handler answers.
JsonParseError(i) ==
  /\ Received(i)
  /\ JsonFails(reqs[i])
  /\ Answer(i, ErrorPage(400, "SyntaxError"))

ServeStatic(i) ==
  /\ Received(i)
  /\ ~JsonFails(reqs[i])
  /\ StaticServes(reqs[i])
  /\ Answer(i, File(200, reqs[i].path))

\* POST /api/contact, validation fails.
ContactInvalid(i) ==
  /\ Routed(i, "contact")
  /\ ~Valid(reqs[i].body)
  /\ Answer(i, ValidationError)

\* POST /api/contact, getResend() throws inside the try.
ContactNoKey(i) ==
  /\ Routed(i, "contact")
  /\ Valid(reqs[i].body)
  /\ getResendThrows
  /\ Update(i, Caught(reqs[i]))

\* POST /api/contact up to the await: emails.send is called and returns a
\* promise (threw = FALSE) or throws (threw = TRUE).
Dispatch(i, threw) ==
  /\ Routed(i, "contact")
  /\ Valid(reqs[i].body)
  /\ ~getResendThrows
  /\ resend' = getResend
  /\ constructions' = IF Constructs THEN constructions + 1 ELSE constructions
  /\ LET r == [reqs[i] EXCEPT !.sends = @ + 1, !.mail = <<Email(reqs[i].body)>>,
                              !.handle = getResend]
     IN reqs' = [reqs EXCEPT ![i] =
                   IF threw THEN Caught([r EXCEPT !.promise = "threw"])
                   ELSE [r EXCEPT !.promise = "pending", !.phase = "awaiting"]]
  /\ UNCHANGED apiKey

ContactSend(i) == Dispatch(i, FALSE)

ContactSendThrows(i) == Dispatch(i, TRUE)

\* The promise of emails.send resolves: res.json({ success: true }).
SendResolves(i) ==
  /\ reqs[i].phase = "awaiting"
  /\ Update(i, Respond([reqs[i] EXCEPT !.promise = "resolved"], Success))

\* The promise rejects: the catch block logs and answers 500.
SendRejects(i) ==
  /\ reqs[i].phase = "awaiting"
  /\ Update(i, Caught([reqs[i] EXCEPT !.promise = "rejected"]))

\* app.get('/garage-door-service-areas-kansas-city')
ServiceAreas(i) ==
  /\ Routed(i, "areas")
  /\ Answer(i, SendFile(200, AreasIndex))

\* app.get('/blog')
Blog(i) ==
  /\ Routed(i, "blog")
  /\ Answer(i, SendFile(200, BlogIndex))

\* app.get('/blog/:slug')
BlogSlug(i) ==
  /\ Routed(i, "blogSlug")
  /\ Answer(i, BlogSlugResponse(reqs[i].path[2]))

\* app.get('/services/:slug')
ServicesSlug(i) ==
  /\ Routed(i, "servicesSlug")
  /\ Answer(i, ServicesSlugResponse(reqs[i].path[2]))

\* app.get('*')
Wildcard(i) ==
  /\ Routed(i, "wildcard")
  /\ Answer(i, WildcardResponse)

\* No route is left: Express answers 404 itself.
NoRoute(i) ==
  /\ Routed(i, "none")
  /\ Answer(i, ErrorPage(404, "Cannot " \o reqs[i].method))

\* The response has been written; the request is gone.
Close(i) ==
  /\ reqs[i].phase = "done"
  /\ Update(i, IdleReq)

\* ---------------------------------------------------------- specifications

\* Every field value of at most MaxChars characters.
Values == ValuesUpTo[MaxChars]

\* One request at a time, any body.
Next ==
  \E i \in {1} :
    \/ Arrive(i, Paths, Values)
    \/ JsonParseError(i)
    \/ ServeStatic(i)
    \/ ContactInvalid(i)
    \/ ContactNoKey(i)
    \/ ContactSend(i)
    \/ ContactSendThrows(i)
    \/ SendResolves(i)
    \/ SendRejects(i)
    \/ ServiceAreas(i)
    \/ Blog(i)
    \/ BlogSlug(i)
    \/ ServicesSlug(i)
    \/ Wildcard(i)
    \/ NoRoute(i)
    \/ Close(i)

Spec == Init /\ [][Next]_vars

\* Field values of the concurrent specification: absent or one character.
ConcValues == {Undefined, Str(<<"<">>)}

\* Contact requests in flight together, in any interleaving.
NextConc ==
  \E i \in 1..MaxReq :
    \/ Arrive(i, {ContactPath}, ConcValues)
    \/ JsonParseError(i)
    \/ ContactInvalid(i)
    \/ ContactNoKey(i)
    \/ ContactSend(i)
    \/ ContactSendThrows(i)
    \/ SendResolves(i)
    \/ SendRejects(i)
    \/ Wildcard(i)
    \/ Close(i)

SpecConc == Init /\ [][NextConc]_vars

\* ------------------------------------------------------------- properties

Slots == 1..MaxReq

\* The request of slot i has been answered.
Done(i) == reqs[i].phase = "done"

\* The request of slot i is one the contact handler runs for.
Submission(i) ==
  /\ reqs[i].phase # "idle"
  /\ reqs[i].method = "POST"
  /\ reqs[i].path = ContactPath
  /\ reqs[i].raw # "malformed"

\* A field that is missing or empty.
Blank(v) == v = Undefined \/ v = Null \/ v = Str(<<>>)

Required == {"name", "phone", "message"}

\* The email handed to the collaborator by slot i, when there is one.
Sent(i) == reqs[i].mail # <<>>

Mail(i) == reqs[i].mail[1]

\* The substitutions of a template.
Subs(parts) == {k \in 1..Len(parts) : parts[k].kind = "sub"}

\* Reads an escaped text back: &lt; is <, &gt; is >, anything else itself.
RECURSIVE Unescape(_)
Unescape(s) ==
  IF s = <<>> THEN <<>>
  ELSE IF Len(s) >= 4 /\ SubSeq(s, 1, 4) = <<"&", "l", "t", ";">>
       THEN <<"<">> \o Unescape(SubSeq(s, 5, Len(s)))
  ELSE IF Len(s) >= 4 /\ SubSeq(s, 1, 4) = <<"&", "g", "t", ";">>
       THEN <<">">> \o Unescape(SubSeq(s, 5, Len(s)))
  ELSE <<Head(s)>> \o Unescape(Tail(s))

NoMarkup(s) == \A k \in 1..Len(s) : s[k] \notin {"<", ">"}

\* `text` is the value of `raw` with every < and > escaped.
Sanitized(text, raw) == NoMarkup(text) /\ Unescape(text) = raw.s

\* C1: a submission with name, phone or message missing or empty is
\* answered 400 with the fixed validation message, once answered, and no
\* email is ever handed to the collaborator for it.
C1_MissingFieldIs400 ==
  \A i \in Slots :
    (Submission(i) /\ \E f \in Required : Blank(reqs[i].body[f])) =>
      /\ reqs[i].sends = 0
      /\ ~Sent(i)
      /\ Done(i) => reqs[i].responses = <<ValidationError>>

C1_Witness ==
  \E i \in Slots :
    /\ Submission(i) /\ Done(i)
    /\ ~Blank(reqs[i].body.name) /\ ~Blank(reqs[i].body.phone)
    /\ reqs[i].body.message = Str(<<>>)
    /\ reqs[i].responses = <<ValidationError>>

\* C2: in every email handed to the collaborator, each field value embedded
\* in the HTML body and the name in the subject is the sanitized value: it
\* holds no < or >, and reads back as the submitted value; name, phone and
\* message are embedded, and the subject ends with the name.
C2_OnlySanitizedValues ==
  \A i \in Slots :
    Sent(i) =>
      LET m == Mail(i)
          b == reqs[i].body
      IN /\ \A k \in Subs(m.html) : Sanitized(m.html[k].text, b[m.html[k].field])
         /\ \A k \in Subs(m.subject) : Sanitized(m.subject[k].text, b[m.subject[k].field])
         /\ \A f \in Required : \E k \in Subs(m.html) : m.html[k].field = f
         /\ \E k \in Subs(m.subject) : m.subject[k].field = "name"

C2_Witness ==
  \E i \in Slots :
    /\ Sent(i)
    /\ reqs[i].body.name = Str(<<"<", ">">>)
    /\ Mail(i).subject[2].text = <<"&", "l", "t", ";", "&", "g", "t", ";">>

\* C3: a validated submission whose dispatch fails (the key is absent, or
\* emails.send throws or rejects) is answered 500 with the fixed failure
\* message, the error is logged once, and emails.send is called at most
\* once for any request.
C3_DispatchFailureIs500 ==
  \A i \in Slots :
    /\ reqs[i].sends <= 1
    /\ (/\ Submission(i) /\ Done(i)
        /\ \A f \in Required : ~Blank(reqs[i].body[f])
        /\ (~apiKey \/ reqs[i].promise \in {"rejected", "threw"}))
       => /\ reqs[i].responses = <<SendError>>
          /\ reqs[i].logged = 1

C3_Witness ==
  \E i \in Slots :
    /\ Done(i) /\ reqs[i].promise = "rejected" /\ reqs[i].sends = 1
    /\ reqs[i].responses = <<SendError>>

\* C4 as claimed: every POST /api/contact is answered once, with a JSON
\* body and status 200, 400 or 500, and with 200 {success: true} exactly
\* when validation passed and the collaborator acknowledged the send.
C4_AlwaysJsonAnswer ==
  \A i \in Slots :
    (reqs[i].method = "POST" /\ reqs[i].path = ContactPath /\ Done(i)) =>
      /\ Len(reqs[i].responses) = 1
      /\ reqs[i].responses[1].type = "json"
      /\ reqs[i].responses[1].status \in {200, 400, 500}
      /\ reqs[i].responses[1] = Success <=>
           /\ \A f \in Required : ~Blank(reqs[i].body[f])
           /\ reqs[i].promise = "resolved"

\* C5 as claimed: a GET /blog/{slug} with no blog/{slug}/index.html is
\* answered with the blog index and a success status.
C5_BlogFallbackIsSuccess ==
  \A i \in Slots :
    (/\ Done(i) /\ reqs[i].method = "GET"
     /\ Len(reqs[i].path) = 2 /\ reqs[i].path[1] = "blog"
     /\ BlogPage(reqs[i].path[2]) \notin Files)
    => /\ reqs[i].responses[1].type = "file"
       /\ reqs[i].responses[1].content = BlogIndex
       /\ reqs[i].responses[1].status \in 200..299

\* C5 amended: a GET /blog/{slug} with no blog/{slug}/index.html is
\* answered once, with the blog index as the body and status 404.
C5_BlogFallbackIs404 ==
  \A i \in Slots :
    (/\ Done(i) /\ reqs[i].method = "GET"
     /\ Len(reqs[i].path) = 2 /\ reqs[i].path[1] = "blog"
     /\ BlogPage(reqs[i].path[2]) \notin Files)
    => reqs[i].responses = <<File(404, BlogIndex)>>

C5_Witness ==
  \E i \in Slots :
    /\ Done(i) /\ reqs[i].method = "GET"
    /\ reqs[i].path = <<"blog", "does-not-exist">>
    /\ reqs[i].responses[1].content = BlogIndex

\* The request matches a route registered before the catch-all.
Specific(r) ==
  \/ r.method = "POST" /\ r.path = ContactPath
  \/ /\ r.method = "GET"
     /\ \/ r.path \in {AreasPath, <<"blog">>}
        \/ Len(r.path) = 2 /\ r.path[1] \in {"blog", "services"}

Complete(i) == \A f \in Required : ~Blank(reqs[i].body[f])

\* C7: the client handle is unset at process start; the only step that
\* constructs it is the dispatch of a validated submission while the key is
\* present, so no static GET and no rejected submission does. With the key
\* absent the handle stays unset, every GET is still answered with a file,
\* and a validated submission is answered 500 without a send.
C7_LazyClient ==
  /\ resend = Unset /\ constructions = 0
  /\ [][(resend' # resend \/ constructions' # constructions) =>
          /\ apiKey /\ resend = Unset
          /\ resend' # Unset /\ constructions' = 1
          /\ \E i \in Slots :
               /\ Submission(i) /\ Complete(i)
               /\ reqs[i].phase = "received"
               /\ reqs'[i].sends = 1 /\ reqs'[i].handle = resend']_vars
  /\ [](~apiKey =>
          /\ resend = Unset
          /\ \A i \in Slots :
               /\ (Done(i) /\ reqs[i].method = "GET") =>
                    /\ Len(reqs[i].responses) = 1
                    /\ reqs[i].responses[1].type = "file"
               /\ (Done(i) /\ Submission(i) /\ Complete(i)) =>
                    /\ reqs[i].responses = <<SendError>>
                    /\ reqs[i].sends = 0)

C7_Witness ==
  \E i \in Slots :
    /\ apiKey /\ resend # Unset /\ constructions = 1
    /\ reqs[i].phase = "awaiting" /\ reqs[i].handle = resend

\* The answer a submission is due from its own body and its own send.
Due(i) ==
  IF ~Complete(i) THEN ValidationError
  ELSE IF reqs[i].promise = "resolved" THEN Success
  ELSE SendError

\* C8: with contact requests interleaved, each answered submission has the
\* answer due from its own body and the outcome of its own send; the client
\* handle is constructed at most once, is set from then on, and is the
\* handle of every send.
C8_RequestsIndependent ==
  /\ constructions <= 1
  /\ resend = Unset <=> constructions = 0
  /\ \A i \in Slots :
       /\ reqs[i].sends > 0 => reqs[i].handle # Unset /\ reqs[i].handle = resend
       /\ (Submission(i) /\ Done(i)) => reqs[i].responses = <<Due(i)>>

C8_Witness ==
  \E i, j \in Slots :
    /\ i # j
    /\ reqs[i].phase = "awaiting"
    /\ Done(j) /\ reqs[j].promise = "rejected"
    /\ reqs[j].responses = <<SendError>>
    /\ reqs[i].handle = reqs[j].handle

\* The cell of the HTML body that shows the email.
MailtoOpen == Lit("<a href=\"mailto:")

\* C9: in every email handed to the collaborator, replyTo and the email cell
\* agree: with the email omitted or empty, replyTo is unset and the body
\* shows the em dash and no mailto link; with an email, replyTo is the
\* email as submitted and the body holds a mailto link of the sanitized
\* email and no em dash.
C9_ReplyToMatchesCell ==
  \A i \in Slots :
    Sent(i) =>
      LET m == Mail(i)
          e == reqs[i].body.email
          html == m.html
          Has(part) == \E k \in 1..Len(html) : html[k] = part
      IN IF Blank(e)
         THEN /\ m.replyTo = Undefined
              /\ Has(Lit(EmDash))
              /\ ~Has(MailtoOpen)
              /\ \A k \in Subs(html) : html[k].field # "email"
         ELSE /\ m.replyTo = e
              /\ ~Has(Lit(EmDash))
              /\ \E k \in 1..(Len(html) - 1) :
                   /\ html[k] = MailtoOpen
                   /\ html[k + 1].kind = "sub"
                   /\ html[k + 1].field = "email"
                   /\ Sanitized(html[k + 1].text, e)

C9_Witness ==
  \E i \in Slots :
    /\ Sent(i)
    /\ reqs[i].body.email = Str(<<"<">>)
    /\ Mail(i).replyTo = Str(<<"<">>)
    /\ \E k \in 1..Len(Mail(i).html) :
         Mail(i).html[k] = Sub("email", <<"&", "l", "t", ";">>)

\* C10: a GET /services/{slug} with no services/{slug}/index.html is answered
\* with the site root index as the body; one whose page exists is answered
\* with that page.
C10_ServicesFallbackIsRoot ==
  \A i \in Slots :
    (/\ Done(i) /\ reqs[i].method = "GET"
     /\ Len(reqs[i].path) = 2 /\ reqs[i].path[1] = "services")
    => /\ Len(reqs[i].responses) = 1
       /\ reqs[i].responses[1].type = "file"
       /\ reqs[i].responses[1].content =
            IF ServicePage(reqs[i].path[2]) \in Files
            THEN ServicePage(reqs[i].path[2])
            ELSE RootIndex

C10_Witness ==
  \E i \in Slots :
    /\ Done(i) /\ reqs[i].method = "GET"
    /\ reqs[i].path = <<"services", "does-not-exist">>
    /\ reqs[i].responses[1].content = RootIndex

====
